---- MODULE Spec2Model ----
(***************************************************************************)
(* backbrightness.py: a polling loop that mirrors a hardware backlight     *)
(* level into the gamma ramps of display outputs, through one of two       *)
(* backends (XRandRBrightnessSetter, GnomeBrightnessSetter), and restores  *)
(* the captured ramps in a finally block.                                  *)
(***************************************************************************)
EXTENDS Integers, Sequences, FiniteSets, TLC

(***************************************************************************)
(* Python float arithmetic.  `actual_brightness / max_brightness` is a     *)
(* true division of two ints giving an IEEE-754 double, and                *)
(* `int(i * brightness)` multiplies an int by that double (the int is      *)
(* converted exactly, the product is rounded to nearest, ties to even)     *)
(* and truncates.  A positive double is a record [bits, exp]: bits is the  *)
(* significand, most significant bit first, of length Precision, and the   *)
(* value is (bits read as a binary integer) * 2^exp.  Zero has no bits.    *)
(* The operators avoid deep recursion: quotient bits come from modular     *)
(* powers of two, the product is formed limb by limb.                      *)
(***************************************************************************)
Precision == 53

LimbBits == 3 * 5

LimbBase == 2 ^ LimbBits

NumLimbs == (Precision + LimbBits - 1) \div LimbBits

FloatZero == [bits |-> <<>>, exp |-> 0]

\* f[lo] + ... + f[hi]
RECURSIVE Sum(_, _, _)
Sum(f, lo, hi) ==
    IF lo > hi THEN 0
    ELSE IF lo = hi THEN f[lo]
    ELSE Sum(f, lo, (lo + hi) \div 2) + Sum(f, (lo + hi) \div 2 + 1, hi)

\* the binary integer written by the bits s, most significant first
BitsToInt(s) == Sum([k \in 1..Len(s) |-> s[k] * 2 ^ (Len(s) - k)], 1, Len(s))

\* 2^j mod m
RECURSIVE Pow2Mod(_, _)
Pow2Mod(j, m) ==
    IF j = 0 THEN 1 % m
    ELSE LET h == Pow2Mod(j \div 2, m)
         IN  (h * h * (IF j % 2 = 1 THEN 2 ELSE 1)) % m

\* s + 1 on Len(s) bits (all ones wrap to all zeros)
IncBits(s) ==
    SubSeq([k \in 1..Len(s) |->
               IF \A j \in (k + 1)..Len(s) : s[j] = 1 THEN 1 - s[k] ELSE s[k]],
           1, Len(s))

\* Round the exact value (s read as binary, plus a non-zero tail when sticky)
\* * 2^e to Precision bits, ties to even.  Len(s) >= Precision, s[1] = 1.
RoundNearestEven(s, sticky, e) ==
    LET drop   == Len(s) - Precision
        kept   == SubSeq(s, 1, Precision)
        guard  == IF drop >= 1 THEN s[Precision + 1] ELSE 0
        tail   == sticky \/ \E k \in (Precision + 2)..Len(s) : s[k] = 1
        up     == guard = 1 /\ (tail \/ kept[Precision] = 1)
        carry  == up /\ \A k \in 1..Precision : kept[k] = 1
    IN  IF carry
        THEN [bits |-> SubSeq([k \in 1..Precision |-> IF k = 1 THEN 1 ELSE 0],
                              1, Precision),
              exp |-> e + drop + 1]
        ELSE [bits |-> IF up THEN IncBits(kept) ELSE kept, exp |-> e + drop]

\* a/m = (num/den) * 2^e with 1 <= num/den < 2.
RECURSIVE Scale(_, _, _)
Scale(num, den, e) ==
    IF num < den THEN Scale(2 * num, den, e - 1)
    ELSE IF num >= 2 * den THEN Scale(num, 2 * den, e + 1)
    ELSE [num |-> num, den |-> den, e |-> e]

\* actual_brightness / max_brightness, for a >= 0 and m > 0: the quotient's
\* first Precision + 1 bits by long division, then rounded.
TrueDiv(a, m) ==
    IF a = 0 THEN FloatZero
    ELSE LET s  == Scale(a, m, 0)
             r0 == s.num - s.den
             q  == [k \in 1..(Precision + 1) |->
                       IF k = 1 THEN 1
                       ELSE (2 * ((r0 * Pow2Mod(k - 2, s.den)) % s.den)) \div s.den]
             t  == (r0 * Pow2Mod(Precision, s.den)) % s.den # 0
         IN  RoundNearestEven(q, t, s.e - Precision)

\* limb j (least significant = 1) of the significand s
Limb(s, j) ==
    Sum([t \in 0..(LimbBits - 1) |->
            IF LimbBits * (j - 1) + t < Len(s)
            THEN s[Len(s) - (LimbBits * (j - 1) + t)] * 2 ^ t ELSE 0],
        0, LimbBits - 1)

Limbs(s) == SubSeq([j \in 1..NumLimbs |-> Limb(s, j)], 1, NumLimbs)

\* the carry into limb j of x * i, x given by its limbs
RECURSIVE MulCarry(_, _, _)
MulCarry(x, i, j) ==
    IF j = 1 THEN 0
    ELSE (x[j - 1] * i + MulCarry(x, i, j - 1)) \div LimbBase

\* the limbs of x * i, least significant first; the last holds the final carry
MulLimbs(x, i) ==
    SubSeq([j \in 1..(NumLimbs + 1) |->
               IF j <= NumLimbs
               THEN (x[j] * i + MulCarry(x, i, j)) % LimbBase
               ELSE MulCarry(x, i, NumLimbs + 1)],
           1, NumLimbs + 1)

\* bit p (least significant = 0) of the number with limbs x
LimbsBit(x, p) ==
    IF p < LimbBits * NumLimbs
    THEN (x[p \div LimbBits + 1] \div 2 ^ (p % LimbBits)) % 2
    ELSE (x[NumLimbs + 1] \div 2 ^ (p - LimbBits * NumLimbs)) % 2

\* the number of bits an exact product i * significand can take
ProductWidth == LimbBits * NumLimbs + 16

\* the position of the leading one of the non-zero number with limbs x
TopBit(x) ==
    CHOOSE p \in 0..ProductWidth :
        /\ LimbsBit(x, p) = 1
        /\ \A u \in (p + 1)..ProductWidth : LimbsBit(x, u) = 0

\* the bits of the number with limbs x, from its leading one at position top
BitsFrom(x, top) ==
    SubSeq([k \in 1..(top + 1) |-> LimbsBit(x, top + 1 - k)], 1, top + 1)

\* the bits of the non-zero number with limbs x, most significant first
LimbsToBits(x) == BitsFrom(x, TopBit(x))

\* i * brightness, for an int 0 <= i < 2^16: the exact product, rounded.
FloatMul(i, f) ==
    IF i = 0 \/ f.bits = <<>> THEN FloatZero
    ELSE RoundNearestEven(LimbsToBits(MulLimbs(Limbs(f.bits), i)), FALSE, f.exp)

\* int(x) for a double x >= 0: truncation.
IntOf(x) ==
    IF x.bits = <<>> THEN 0
    ELSE IF x.exp >= 0
         THEN BitsToInt(x.bits \o [k \in 1..x.exp |-> 0])
         ELSE IF Len(x.bits) + x.exp <= 0 THEN 0
              ELSE BitsToInt(SubSeq(x.bits, 1, Len(x.bits) + x.exp))

(***************************************************************************)
(* The configuration and the display.                                      *)
(***************************************************************************)
\* args.outputs, in the order of the crtcs dict.  The display never reports
\* an output named "Z".
Names == <<"A", "B", "Z">>

NameSet == {Names[k] : k \in 1..Len(Names)}

\* the outputs the display can report, in the order it lists them; "X" is
\* not configured and stays on CRTC 1.
Reported == <<"A", "B", "X">>

\* the configured outputs the display reports
Movable == {"A", "B"}

NumCrtcs == 2

Crtcs == 1..NumCrtcs

NoId == 0

NoGamma == <<>>

NoSerial == 0

MaxSerial == 2

\* the brightness argument None
None == [none |-> TRUE]

\* stands for the argument of set_brightness where no call was made
NoCall == [none |-> FALSE]

\* a layout gives the CRTC driving each movable output, NoId when detached;
\* "B", when attached, is on CRTC 1
Layouts == {lay \in [{"A", "B"} -> {NoId} \cup Crtcs] : lay["B"] \in {NoId, 1}}

CrtcOf(lay, o) == IF o = "X" THEN 1 ELSE lay[o]

\* the largest value of a ramp entry
MaxRamp == 255

\* the ramp a CRTC holds before the program touches it: red, green, blue
Native(c) ==
    IF c = 1
    THEN << <<0, 90, 180>>, <<0, 90, 180>>, <<0, 90, 180>> >>
    ELSE << <<0, 85 * c>>, <<0, 85 * c>>, <<0, 85 * c>> >>

\* the (max_brightness, actual_brightness) pairs the two files can hold
ReadingSeq == << <<10, 7>>, <<10, 10>>, <<0, 0>> >>

Readings == {ReadingSeq[k] : k \in 1..Len(ReadingSeq)}

Maxsize == 10

VARIABLES
    variant,      \* "xrandr" or "gnome": methods[args.setter_method]
    layout,       \* the display: which CRTC drives which output
    envSerial,    \* the display configuration's serial
    live,         \* the display: the ramp each CRTC holds
    crtcs,        \* self.crtcs
    conn,         \* XRandR: "none", "connected" (self.connection set), "ready" (self.randr set)
    serial,       \* Gnome: self.serial
    cache,        \* the lru_cache of generate_gamma_table, least recently used first
    outq,         \* XRandR: requests written to the connection and not yet flushed
    pc,           \* "tick", "sleep", "finally", "exit", "killed"
    pending,      \* the exception in flight: "none", "error", "interrupt"
    exitStatus,   \* "running", "zero", "nonzero", "signal"
    resetCalls,   \* how often reset() was invoked
    resetResult,  \* "none", "ok", "failed"
    cause,        \* why the loop was left: "none", "raise", "interrupt", "kill"
    lastFactor,   \* the argument of set_brightness in the latest pass or reset, NoCall if it made no call
    lastSets,     \* the set-gamma calls that set_brightness call issued
    lastRaised,   \* how that call ended: "no", "code" (it raised), "fault" (cut short at a transport call)
    lastReading,  \* the pair read by the latest pass, <<>> if it read none
    fetches,      \* per output, the GetCrtcGamma calls made for it
    derived,      \* the keys for which the body of generate_gamma_table returned a table, in order
    scaledEver,   \* the CRTCs that ever received, with a numeric factor, a ramp other than their native one
    everSet,      \* the outputs for which a set-gamma call was ever issued
    requested     \* CacheSpec: the keys of the calls of generate_gamma_table, in order

backend == <<crtcs, conn, serial, cache, outq, live, fetches, derived, scaledEver>>

env == <<variant, layout, envSerial>>

control == <<pc, pending, exitStatus, resetCalls, resetResult, cause>>

history == <<lastFactor, lastSets, lastRaised, lastReading, everSet>>

vars == <<env, backend, control, history, requested>>

(***************************************************************************)
(* A handler runs on a record r of the backend's state.  r.n counts the    *)
(* transport calls made so far and r.trace keeps, for each of them, the    *)
(* record as it stood when the call was made: the state the handler        *)
(* leaves behind when that call fails.  r.raised is "no", "fault" (a       *)
(* transport call failed) or "code" (the handler itself raised); once it   *)
(* is set the rest of the handler is skipped.                              *)
(***************************************************************************)
Ok(r) == r.raised = "no"

Call(r) ==
    IF ~Ok(r) THEN r
    ELSE [r EXCEPT !.n = @ + 1,
                   !.trace = Append(@, [r EXCEPT !.trace = <<>>])]

Raise(r) == IF ~Ok(r) THEN r ELSE [r EXCEPT !.raised = "code"]

\* the handler r ran, cut short by the failure of its at-th transport call
FailedAt(r, at) == [r.trace[at] EXCEPT !.n = at, !.raised = "fault"]

Start ==
    [crtcs |-> crtcs, conn |-> conn, serial |-> serial, cache |-> cache,
     outq |-> outq, live |-> live, fetches |-> fetches, derived |-> derived,
     scaled |-> scaledEver,
     sets |-> <<>>, ret |-> NoGamma, n |-> 0, trace |-> <<>>, raised |-> "no"]

\* the (max_brightness, actual_brightness) pairs of the direct calls of
\* generate_gamma_table made under CacheSpec
CallSeq == << <<6, 1>>, <<6, 2>>, <<6, 3>>, <<6, 4>>, <<6, 5>> >>

\* actual_brightness / max_brightness for the readings with max_brightness # 0
\* (FloatZero stands in the place of the others), then for the direct calls
Factor ==
    SubSeq([k \in 1..Len(ReadingSeq \o CallSeq) |->
               IF (ReadingSeq \o CallSeq)[k][1] = 0 THEN FloatZero
               ELSE TrueDiv((ReadingSeq \o CallSeq)[k][2], (ReadingSeq \o CallSeq)[k][1])],
           1, Len(ReadingSeq \o CallSeq))

\* actual_brightness / max_brightness
Quotient(actual, max) ==
    IF \E k \in 1..Len(ReadingSeq) : ReadingSeq[k] = <<max, actual>>
    THEN Factor[CHOOSE k \in 1..Len(ReadingSeq) : ReadingSeq[k] = <<max, actual>>]
    ELSE TrueDiv(actual, max)

\* int(i * brightness) worked out once for the ramp values 1..MaxRamp and each
\* factor
Products ==
    SubSeq([k \in 1..Len(Factor) |->
               SubSeq([i \in 1..MaxRamp |-> IntOf(FloatMul(i, Factor[k]))], 1, MaxRamp)],
           1, Len(Factor))

\* int(i * brightness)
ScaleEntry(i, brightness) ==
    IF i \in 1..MaxRamp /\ \E k \in 1..Len(Factor) : Factor[k] = brightness
    THEN Products[CHOOSE k \in 1..Len(Factor) : Factor[k] = brightness][i]
    ELSE IntOf(FloatMul(i, brightness))

\* BrightnessSetter.__init__
NewCrtcs == [name \in NameSet |-> [id |-> NoId, original_gamma |-> NoGamma]]

\* the body of generate_gamma_table
Derive(table, brightness) ==
    IF brightness = None THEN table
    ELSE [c \in 1..Len(table) |->
             [i \in 1..Len(table[c]) |-> ScaleEntry(table[c][i], brightness)]]

CacheIndex(c, key) ==
    IF \E k \in 1..Len(c) : c[k].key = key
    THEN CHOOSE k \in 1..Len(c) : c[k].key = key
    ELSE 0

Without(c, k) == SubSeq(c, 1, k - 1) \o SubSeq(c, k + 1, Len(c))

\* lru_cache: a hit moves the entry to the most recent end, a miss inserts
\* there and drops the least recent entry beyond maxsize
CacheInsert(c, entry) ==
    IF Len(c) >= Maxsize THEN Append(Without(c, 1), entry) ELSE Append(c, entry)

\* CacheHit that returns the value and leaves the order of the entries
CacheHitNoTouch(r, k) == [r EXCEPT !.ret = r.cache[k].val]

\* a cache hit on entry k: its value is returned and it becomes the most
\* recently used
CacheHit(r, k) ==
    [r EXCEPT !.ret = r.cache[k].val,
              !.cache = Append(Without(r.cache, k), r.cache[k])]

\* a cache miss: the value computed is returned and stored
CacheMiss(r, key, val) ==
    [r EXCEPT !.ret = val,
              !.derived = Append(@, key),
              !.cache = CacheInsert(r.cache, [key |-> key, val |-> val])]

\* generate_gamma_table without the decorator of line 25
GenerateGammaTableUncached(r, name, brightness) ==
    IF r.crtcs[name].original_gamma = NoGamma /\ brightness # None
    THEN Raise(r)
    ELSE [r EXCEPT !.ret = Derive(r.crtcs[name].original_gamma, brightness),
                   !.derived = Append(@, <<name, brightness>>)]

\* generate_gamma_table behind its lru_cache; the value returned is r.ret.
\* Iterating over the table None with a numeric brightness raises.
GenerateGammaTable(r, name, brightness) ==
    IF CacheIndex(r.cache, <<name, brightness>>) # 0
    THEN CacheHit(r, CacheIndex(r.cache, <<name, brightness>>))
    ELSE IF r.crtcs[name].original_gamma = NoGamma /\ brightness # None
    THEN Raise(r)
    ELSE CacheMiss(r, <<name, brightness>>,
                   Derive(r.crtcs[name].original_gamma, brightness))

ClearIds(r) ==
    [r EXCEPT !.crtcs = [name \in NameSet |-> [r.crtcs[name] EXCEPT !.id = NoId]]]

\* the reply of GetCrtcGamma is stored as the output's original_gamma
StoreGamma(r, name, crtc) ==
    IF ~Ok(r) THEN r
    ELSE [r EXCEPT !.crtcs[name].original_gamma = r.live[crtc]]

\* FetchGamma without the `is None` test of lines 68 and 136: every
\* discovery fetches the ramp again
FetchGammaAlways(r, name, crtc) ==
    StoreGamma(Call([r EXCEPT !.fetches[name] = @ + 1]), name, crtc)

\* lines 68-72 and 136-139: the ramp is fetched when none is known
FetchGamma(r, name, crtc) ==
    IF r.crtcs[name].original_gamma # NoGamma THEN r
    ELSE StoreGamma(Call([r EXCEPT !.fetches[name] = @ + 1]), name, crtc)

\* lines 65-72 and 133-139: record the CRTC of a configured output and
\* fetch its ramp when none is known
Capture(r, name, crtc) ==
    IF ~Ok(r) \/ name \notin NameSet THEN r
    ELSE FetchGamma([r EXCEPT !.crtcs[name].id = crtc], name, crtc)

\* the outputs of the current layout driven by crtc, in listing order
OutputsOn(crtc) ==
    SelectSeq(Reported, LAMBDA o : CrtcOf(layout, o) = crtc)

\* the outputs of the current layout that a CRTC drives, in listing order
Connected ==
    SelectSeq(Reported, LAMBDA o : CrtcOf(layout, o) # NoId)

RECURSIVE XVisitOutputs(_, _, _, _)
XVisitOutputs(r, crtc, outs, k) ==
    IF k > Len(outs) THEN r
    ELSE XVisitOutputs(Capture(Call(r), outs[k], crtc), crtc, outs, k + 1)

RECURSIVE XVisitCrtcs(_, _)
XVisitCrtcs(r, crtc) ==
    IF crtc > NumCrtcs THEN r
    ELSE XVisitCrtcs(XVisitOutputs(Call(r), crtc, OutputsOn(crtc), 1), crtc + 1)

\* XRandRBrightnessSetter.__find_crtcs
FindCrtcs(r) == XVisitCrtcs(Call(ClearIds(r)), 1)

\* line 86: xcffib.connect succeeded and self.connection is set
Connection(r) == IF ~Ok(r) THEN r ELSE [r EXCEPT !.conn = "connected"]

\* line 89: con(xcffib.randr.key) succeeded and self.randr is set
Extension(r) == IF ~Ok(r) THEN r ELSE [r EXCEPT !.conn = "ready"]

\* line 92: self.randr does not exist when an earlier connect failed after
\* self.connection was set
ReturnRandr(r) == IF Ok(r) /\ r.conn = "connected" THEN Raise(r) ELSE r

\* XRandRBrightnessSetter.connect
Connect(r) ==
    ReturnRandr(IF r.conn # "none" THEN r
                ELSE FindCrtcs(Extension(Call(Connection(Call(r))))))

\* the set-gamma request for the output name with the table in r.ret; the
\* Gnome call carries self.serial (NoSerial stands in the XRandR request)
Request(r, name, brightness) ==
    [name |-> name, crtc |-> r.crtcs[name].id, table |-> r.ret,
     factor |-> brightness, serial |-> r.serial]

\* lines 102-103: the request is written to the connection
XSend(r, name, brightness) ==
    IF ~Ok(r) THEN r
    ELSE [r EXCEPT !.outq = Append(@, Request(r, name, brightness)),
                   !.sets = Append(@, Request(r, name, brightness))]

\* lines 102-103 and 148-149: adjusted[0] raises when the table is None
Subscript(r) == IF Ok(r) /\ r.ret = NoGamma THEN Raise(r) ELSE r

\* XSetOne without the `continue` of lines 98-99
XSetOneNoSkip(r, name, brightness) ==
    IF ~Ok(r) THEN r
    ELSE XSend(Call(Subscript(GenerateGammaTable(r, name, brightness))),
               name, brightness)

\* one pass of the loop of XRandRBrightnessSetter.set_brightness
XSetOne(r, name, brightness) ==
    IF ~Ok(r) \/ r.crtcs[name].id = NoId THEN r
    ELSE XSend(Call(Subscript(GenerateGammaTable(r, name, brightness))),
               name, brightness)

RECURSIVE XSetAll(_, _, _)
XSetAll(r, brightness, k) ==
    IF k > Len(Names) THEN r
    ELSE XSetAll(XSetOne(r, Names[k], brightness), brightness, k + 1)

\* the ramp of crtc after the requests q reached the display
RECURSIVE Applied(_, _, _)
Applied(q, crtc, old) ==
    IF q = <<>> THEN old
    ELSE Applied(Tail(q), crtc, IF Head(q).crtc = crtc THEN Head(q).table ELSE old)

\* the CRTCs that the requests q, made with a numeric factor, give a ramp
\* other than their native one
Scaled(q) ==
    {q[k].crtc : k \in {j \in 1..Len(q) : /\ q[j].factor # None
                                          /\ q[j].table # Native(q[j].crtc)}}

\* the requests written to the connection reach the display
Deliver(r) ==
    IF ~Ok(r) THEN r
    ELSE [r EXCEPT !.live = [c \in Crtcs |-> Applied(r.outq, c, r.live[c])],
                   !.scaled = @ \cup Scaled(r.outq),
                   !.outq = <<>>]

\* self.connection.flush()
Flush(r) == Deliver(Call(r))

\* XRandRBrightnessSetter.set_brightness
XRandRSetBrightness(r, brightness) ==
    Flush(XSetAll(Connect(r), brightness, 1))

RECURSIVE GVisitOutputs(_, _, _)
GVisitOutputs(r, outs, k) ==
    IF k > Len(outs) THEN r
    ELSE GVisitOutputs(Capture(r, outs[k], CrtcOf(layout, outs[k])), outs, k + 1)

\* Configure without the assignment of line 125 that stores the serial
ConfigureKeepSerial(r) ==
    IF ~Ok(r) \/ envSerial = r.serial THEN r
    ELSE GVisitOutputs(ClearIds(r), Connected, 1)

\* Configure without the loop of lines 126-127 that clears the handles
ConfigureNoClear(r) ==
    IF ~Ok(r) \/ envSerial = r.serial THEN r
    ELSE GVisitOutputs([r EXCEPT !.serial = envSerial], Connected, 1)

\* lines 122-139: what init_configuration does with the reply of GetResources
Configure(r) ==
    IF ~Ok(r) \/ envSerial = r.serial THEN r
    ELSE GVisitOutputs(ClearIds([r EXCEPT !.serial = envSerial]), Connected, 1)

\* GnomeBrightnessSetter.init_configuration
InitConfiguration(r) == Configure(Call(r))

\* lines 148-149: SetCrtcGamma takes effect when the call returns
GSend(r, name, brightness) ==
    IF ~Ok(r) THEN r
    ELSE [r EXCEPT !.live[r.crtcs[name].id] = r.ret,
                   !.scaled = @ \cup Scaled(<<Request(r, name, brightness)>>),
                   !.sets = Append(@, Request(r, name, brightness))]

\* one pass of the loop of GnomeBrightnessSetter.set_brightness
GSetOne(r, name, brightness) ==
    IF ~Ok(r) \/ r.crtcs[name].id = NoId THEN r
    ELSE GSend(Call(Subscript(GenerateGammaTable(r, name, brightness))),
               name, brightness)

RECURSIVE GSetAll(_, _, _)
GSetAll(r, brightness, k) ==
    IF k > Len(Names) THEN r
    ELSE GSetAll(GSetOne(r, Names[k], brightness), brightness, k + 1)

\* GnomeBrightnessSetter.set_brightness
GnomeSetBrightness(r, brightness) ==
    GSetAll(InitConfiguration(r), brightness, 1)

\* setter.set_brightness(brightness), dispatched on the class of setter
SetBrightness(r, brightness) ==
    IF variant = "xrandr" THEN XRandRSetBrightness(r, brightness)
    ELSE GnomeSetBrightness(r, brightness)

(***************************************************************************)
(* The program: main constructs the setter, translate_backlight loops.     *)
(***************************************************************************)
Fresh ==
    [crtcs |-> NewCrtcs, conn |-> "none", serial |-> NoSerial, cache |-> <<>>,
     outq |-> <<>>, live |-> live, fetches |-> [name \in NameSet |-> 0],
     derived |-> <<>>,
     scaled |-> {}, sets |-> <<>>, ret |-> NoGamma, n |-> 0, trace |-> <<>>,
     raised |-> "no"]

\* methods[args.setter_method](args.outputs): the Gnome constructor ends with
\* init_configuration(), the XRandR one connects to nothing yet
Constructed == IF variant = "gnome" THEN InitConfiguration(Fresh) ELSE Fresh

Init ==
    /\ variant \in {"xrandr", "gnome"}
    /\ layout \in Layouts
    /\ envSerial = 1
    /\ live = [c \in Crtcs |-> Native(c)]
    /\ crtcs = Constructed.crtcs
    /\ conn = Constructed.conn
    /\ serial = Constructed.serial
    /\ cache = Constructed.cache
    /\ outq = Constructed.outq
    /\ fetches = Constructed.fetches
    /\ derived = Constructed.derived
    /\ scaledEver = {}
    /\ pc = "tick"
    /\ pending = "none"
    /\ exitStatus = "running"
    /\ resetCalls = 0
    /\ resetResult = "none"
    /\ cause = "none"
    /\ lastFactor = NoCall
    /\ lastSets = <<>>
    /\ lastRaised = "no"
    /\ lastReading = <<>>
    /\ everSet = {}
    /\ requested = <<>>

\* what the handler left behind
Commit(r, brightness) ==
    /\ crtcs' = r.crtcs
    /\ conn' = r.conn
    /\ serial' = r.serial
    /\ cache' = r.cache
    /\ outq' = r.outq
    /\ live' = r.live
    /\ fetches' = r.fetches
    /\ derived' = r.derived
    /\ scaledEver' = r.scaled
    /\ lastFactor' = brightness
    /\ lastSets' = r.sets
    /\ lastRaised' = r.raised
    /\ everSet' = everSet \cup {r.sets[k].name : k \in 1..Len(r.sets)}

\* Leave without the try/finally of lines 156-169: an exception goes
\* straight out of translate_backlight and main
LeaveNoFinally(kind) ==
    /\ cause' = kind
    /\ pc' = IF kind = "kill" THEN "killed" ELSE "exit"
    /\ exitStatus' = IF kind = "kill" THEN "signal" ELSE "nonzero"
    /\ pending' = IF kind = "kill" THEN pending
                  ELSE IF kind = "interrupt" THEN "interrupt" ELSE "error"
    /\ UNCHANGED <<resetCalls, resetResult>>

\* where an exception raised inside the try block goes: the finally block
\* runs with the exception in flight.  A SIGTERM has no handler and ends
\* the process on the spot.
Leave(kind) ==
    /\ cause' = kind
    /\ IF kind = "kill"
       THEN /\ pc' = "killed"
            /\ exitStatus' = "signal"
            /\ UNCHANGED <<pending, resetCalls, resetResult>>
       ELSE /\ pc' = "finally"
            /\ pending' = IF kind = "interrupt" THEN "interrupt" ELSE "error"
            /\ UNCHANGED <<exitStatus, resetCalls, resetResult>>

Kinds == {"raise", "interrupt", "kill"}

\* the reads failed (kind "raise") or a signal arrived during them
ReadFault(kind) ==
    /\ pc = "tick"
    /\ Leave(kind)
    /\ lastReading' = <<>>
    /\ lastFactor' = NoCall
    /\ lastSets' = <<>>
    /\ lastRaised' = "no"
    /\ UNCHANGED <<env, backend, everSet, requested>>

\* line 165: r is the complete run of set_brightness(brightness).  It
\* returns and the loop goes to sleep, or it raises, or its at-th transport
\* call fails (kind "raise") or a signal arrives at it.
Applying(r, brightness) ==
    \/ /\ Commit(r, brightness)
       /\ IF Ok(r)
          THEN /\ pc' = "sleep"
               /\ UNCHANGED <<pending, exitStatus, resetCalls, resetResult, cause>>
          ELSE Leave("raise")
    \/ \E kind \in Kinds, at \in 1..r.n :
          /\ Commit(FailedAt(r, at), brightness)
          /\ Leave(kind)

Apply(brightness) == Applying(SetBrightness(Start, brightness), brightness)

\* Tick with a guard around the division of line 164 that turns
\* max_brightness == 0 into the factor 0.0 instead of raising
TickZeroAsDark(reading) ==
    /\ pc = "tick"
    /\ lastReading' = reading
    /\ Apply(IF reading[1] = 0 THEN FloatZero
             ELSE Quotient(reading[2], reading[1]))
    /\ UNCHANGED <<env, requested>>

\* one pass of the while loop up to time.sleep: the two reads, the division,
\* set_brightness.  The pass completes, or the at-th transport call of
\* set_brightness fails (kind "raise"), or a signal arrives at it.
Tick(reading) ==
    /\ pc = "tick"
    /\ IF reading[1] = 0
       THEN /\ Leave("raise")
            /\ lastReading' = reading
            /\ lastFactor' = NoCall
            /\ lastSets' = <<>>
            /\ lastRaised' = "no"
            /\ UNCHANGED <<backend, everSet>>
       ELSE /\ lastReading' = reading
            /\ Apply(Quotient(reading[2], reading[1]))
    /\ UNCHANGED <<env, requested>>

\* time.sleep(sleep_time) returns
Wake ==
    /\ pc = "sleep"
    /\ pc' = "tick"
    /\ UNCHANGED <<env, backend, history, requested>>
    /\ UNCHANGED <<pending, exitStatus, resetCalls, resetResult, cause>>

\* SIGINT while sleeping: KeyboardInterrupt is raised in time.sleep.
\* SIGTERM while sleeping: the default action ends the process.
Signal(kind) ==
    /\ pc = "sleep"
    /\ Leave(kind)
    /\ UNCHANGED <<env, backend, history, requested>>

\* sys.exit(main()): main returns 0 after translate_backlight returns; an
\* exception leaving main ends the process with a non-zero status
ExitStatus(exc) == IF exc = "none" THEN "zero" ELSE "nonzero"

\* the finally block: setter.reset(), then the exception in flight (or the
\* one reset raised) leaves translate_backlight and main
Resetting(r) ==
    \/ /\ Commit(r, None)
       /\ pc' = "exit"
       /\ resetResult' = IF Ok(r) THEN "ok" ELSE "failed"
       /\ pending' = IF Ok(r) THEN pending ELSE "error"
       /\ exitStatus' = ExitStatus(pending')
    \/ \E kind \in {"raise", "kill"}, at \in 1..r.n :
          /\ Commit(FailedAt(r, at), None)
          /\ resetResult' = "failed"
          /\ IF kind = "kill"
             THEN /\ pc' = "killed"
                  /\ exitStatus' = "signal"
                  /\ UNCHANGED pending
             ELSE /\ pc' = "exit"
                  /\ pending' = "error"
                  /\ exitStatus' = ExitStatus(pending')

Reset ==
    /\ pc = "finally"
    /\ resetCalls' = resetCalls + 1
    /\ Resetting(SetBrightness(Start, None))
    /\ UNCHANGED <<env, lastReading, cause, requested>>

\* the display is reconfigured between two calls of the setter: outputs move
\* between CRTCs, appear or disappear; the ramps the CRTCs hold stay
TopologyChange ==
    /\ pc = "tick"
    /\ envSerial < MaxSerial
    /\ layout' \in Layouts \ {layout}
    /\ envSerial' = envSerial + 1
    /\ UNCHANGED <<variant, backend, control, history, requested>>

Next ==
    \/ \E kind \in Kinds : ReadFault(kind)
    \/ \E reading \in Readings : Tick(reading)
    \/ Wake
    \/ \E kind \in {"interrupt", "kill"} : Signal(kind)
    \/ Reset
    \/ TopologyChange

Spec == Init /\ [][Next]_vars

(***************************************************************************)
(* generate_gamma_table called directly, as a test of the cache would: a   *)
(* setter whose outputs are discovered, and a sequence of calls with keys  *)
(* taken from more (output, factor) pairs than the cache holds.  New keys  *)
(* come in the order of CacheKeys; calls that repeat an earlier key come   *)
(* anywhere, at most MaxRepeats of them.                                   *)
(***************************************************************************)
MaxRepeats == 1

\* the brightness arguments of the calls: None and the numeric factors
CacheFactors == <<None>> \o Factor

\* the outputs of the calls
CacheNames == <<"A", "B">>

\* the keys of the calls: one more than the cache holds
CacheKeys ==
    SubSeq([n \in 1..(Maxsize + 1) |->
               <<CacheNames[((n - 1) % Len(CacheNames)) + 1],
                 CacheFactors[((n - 1) \div Len(CacheNames)) + 1]>>],
           1, Maxsize + 1)

\* the keys called so far
Requested == {requested[k] : k \in 1..Len(requested)}

\* a setter after a discovery that found "B" on the first CRTC and "A" on
\* the last
CacheInit ==
    /\ variant \in {"xrandr", "gnome"}
    /\ layout = [o \in Movable |-> IF o = "A" THEN NumCrtcs ELSE 1]
    /\ crtcs = [name \in NameSet |->
                   IF name \in Movable
                   THEN [id |-> layout[name], original_gamma |-> Native(layout[name])]
                   ELSE NewCrtcs[name]]
    /\ envSerial = 1
    /\ live = [c \in Crtcs |-> Native(c)]
    /\ conn = IF variant = "xrandr" THEN "ready" ELSE "none"
    /\ serial = IF variant = "gnome" THEN envSerial ELSE NoSerial
    /\ cache = <<>>
    /\ outq = <<>>
    /\ fetches = [name \in NameSet |-> IF name \in Movable THEN 1 ELSE 0]
    /\ derived = <<>>
    /\ scaledEver = {}
    /\ pc = "tick"
    /\ pending = "none"
    /\ exitStatus = "running"
    /\ resetCalls = 0
    /\ resetResult = "none"
    /\ cause = "none"
    /\ lastFactor = NoCall
    /\ lastSets = <<>>
    /\ lastRaised = "no"
    /\ lastReading = <<>>
    /\ everSet = {}
    /\ requested = <<>>

\* what a call of generate_gamma_table leaves behind
Looked(r) ==
    /\ cache' = r.cache
    /\ derived' = r.derived

\* self.generate_gamma_table(name, brightness) with the n-th key
Lookup(n) ==
    /\ IF CacheKeys[n] \in Requested
       THEN Len(requested) - Cardinality(Requested) < MaxRepeats
       ELSE n = Cardinality(Requested) + 1
    /\ Looked(GenerateGammaTable(Start, CacheKeys[n][1], CacheKeys[n][2]))
    /\ requested' = Append(requested, CacheKeys[n])
    /\ UNCHANGED <<env, control, history>>
    /\ UNCHANGED <<crtcs, conn, serial, outq, live, fetches, scaledEver>>

CacheNext == \E n \in 1..Len(CacheKeys) : Lookup(n)

CacheSpec == CacheInit /\ [][CacheNext]_vars

TypeOK ==
    /\ variant \in {"xrandr", "gnome"}
    /\ pc \in {"tick", "sleep", "finally", "exit", "killed"}
    /\ pending \in {"none", "error", "interrupt"}
    /\ exitStatus \in {"running", "zero", "nonzero", "signal"}
    /\ cause \in {"none"} \cup Kinds
    /\ lastRaised \in {"no", "code", "fault"}
    /\ Len(cache) <= Maxsize

(***************************************************************************)
(* The properties.                                                         *)
(***************************************************************************)
\* the configured outputs that hold a CRTC handle, in the order of the dict
Handled == SelectSeq(Names, LAMBDA name : crtcs[name].id # NoId)

\* the configured outputs that hold a CRTC handle and a captured ramp
Restorable ==
    SelectSeq(Names, LAMBDA name : /\ crtcs[name].id # NoId
                                   /\ crtcs[name].original_gamma # NoGamma)

\* the configured output no discovery reports
Unreported == "Z"

\* floor(table[c][i] * actual / max) for every channel c and index i, in
\* exact integer arithmetic; reading is <<max, actual>>
FloorScaled(table, reading) ==
    [c \in 1..Len(table) |->
        [i \in 1..Len(table[c]) |-> (table[c][i] * reading[2]) \div reading[1]]]

\* the latest set_brightness call had a numeric factor
Numeric == lastFactor \notin {None, NoCall}

\* C1: when the loop is left because a step of a tick raised, reset() is
\* invoked exactly once: not yet while the finally block is pending, once
\* from then on, and always before the failure leaves the program; after
\* it the latest set_brightness call is the reset's, so that no call with
\* a numeric factor follows it.
C1_ResetOnceOnTickFailure ==
    cause = "raise" =>
        /\ pc \in {"finally", "exit", "killed"}
        /\ resetCalls = IF pc = "finally" THEN 0 ELSE 1
        /\ exitStatus # "running" => resetCalls = 1
        /\ resetCalls = 1 => lastFactor = None

\* a tick failed after an earlier one had dimmed a CRTC, reset ran and the
\* failure left the program
C1_Witness ==
    /\ cause = "raise"
    /\ pc = "exit"
    /\ exitStatus = "nonzero"
    /\ resetCalls = 1
    /\ resetResult = "ok"
    /\ scaledEver # {}

\* C2: once the program has ended after a reset() that completed without
\* failure, every CRTC that ever received a scaled ramp holds its native
\* ramp again.
C2_NeverLeftScaled ==
    (pc = "exit" /\ resetResult = "ok") =>
        \A c \in scaledEver : live[c] = Native(c)

\* C3: when the loop is left because of a signal (interrupt or terminate),
\* reset() has been invoked by the time the process has ended.
C3_CancelTriggersReset ==
    (cause \in {"interrupt", "kill"} /\ pc \in {"exit", "killed"}) =>
        resetCalls = 1

\* C4: once an output's original_gamma is captured, no step changes it or
\* fetches it again; and no step fetches the ramp of an output twice.
C4_OriginalGammaWriteOnce ==
    [][\A name \in NameSet :
          /\ fetches'[name] <= fetches[name] + 1
          /\ crtcs[name].original_gamma # NoGamma =>
                 /\ crtcs'[name].original_gamma = crtcs[name].original_gamma
                 /\ fetches'[name] = fetches[name]]_vars

\* the ramp of "A" was captured on CRTC 1, a later discovery moved its handle
\* to CRTC 2, and ticks and the reset ran with it
C4_Witness ==
    /\ crtcs["A"].original_gamma = Native(1)
    /\ crtcs["A"].id = 2
    /\ fetches["A"] = 1
    /\ scaledEver # {}
    /\ resetResult = "ok"

\* C5: every table that a set_brightness call with the factor actual/max
\* sent for an output equals floor(original_gamma * actual / max), entry by
\* entry, with the channels and the ramp length of original_gamma.
C5_TableIsFloor ==
    Numeric =>
        \A k \in 1..Len(lastSets) :
            lastSets[k].table =
                FloorScaled(crtcs[lastSets[k].name].original_gamma, lastReading)

\* C6: a reset() that no transport failure cuts short issues exactly one
\* set-gamma call for every configured output that holds a CRTC handle and
\* a captured ramp, with that ramp as its table, and no other call.
C6_ResetRestoresOriginal ==
    (resetCalls = 1 /\ lastRaised # "fault") =>
        /\ Len(lastSets) = Len(Restorable)
        /\ \A k \in 1..Len(lastSets) :
              /\ lastSets[k].name = Restorable[k]
              /\ lastSets[k].table = crtcs[Restorable[k]].original_gamma

\* C7: at the end of every tick that completes, every configured output
\* with a CRTC handle was set to floor(original_gamma * actual / max) for
\* the values read in that tick, whatever the earlier ticks applied.
C7_NoDrift ==
    pc = "sleep" =>
        \A k \in 1..Len(Handled) :
            \E j \in 1..Len(lastSets) :
                /\ lastSets[j].name = Handled[k]
                /\ lastSets[j].table =
                       FloorScaled(crtcs[Handled[k]].original_gamma, lastReading)

\* C8: the output no discovery reports never gets a CRTC handle and never a
\* set-gamma call; a set_brightness call that returns has issued a call for
\* every output with a handle; and when set_brightness itself raises, the
\* reason lies with a reported output or the connection, never with it.
C8_UnreportedOutputSkipped ==
    /\ crtcs[Unreported].id = NoId
    /\ Unreported \notin everSet
    /\ (lastRaised = "no" /\ lastFactor # NoCall) =>
           \A k \in 1..Len(Handled) :
               \E j \in 1..Len(lastSets) : lastSets[j].name = Handled[k]
    /\ lastRaised = "code" =>
           \/ conn = "connected"
           \/ \E name \in NameSet \ {Unreported} :
                 /\ crtcs[name].id # NoId
                 /\ crtcs[name].original_gamma = NoGamma

\* ticks dimmed both reported outputs and the final reset restored them,
\* with the unreported output configured
C8_Witness ==
    /\ Unreported \in NameSet
    /\ pc = "exit"
    /\ resetResult = "ok"
    /\ scaledEver # {}
    /\ everSet = NameSet \ {Unreported}
    /\ Len(lastSets) = 2

\* C9: the process ends with status 0 exactly when the loop was stopped by
\* an interrupt and the reset that followed succeeded.
C9_ExitCode ==
    pc = "exit" =>
        (exitStatus = "zero" <=> (cause = "interrupt" /\ resetResult = "ok"))

\* C10: a tick that reads max_brightness == 0 raises before it calls
\* set_brightness, no tick follows it, reset() is invoked once, and the
\* failure leaves the program with a non-zero status.
C10_ZeroMaxIsFatal ==
    (lastReading # <<>> /\ lastReading[1] = 0) =>
        /\ cause = "raise"
        /\ pc \in {"finally", "exit", "killed"}
        /\ IF pc = "finally"
           THEN resetCalls = 0 /\ lastFactor = NoCall /\ pending = "error"
           ELSE resetCalls = 1 /\ lastFactor = None
        /\ pc = "exit" => (exitStatus = "nonzero" /\ pending = "error")

\* after ticks that dimmed a CRTC, a tick read max_brightness == 0, reset
\* restored the ramps and the program ended
C10_Witness ==
    /\ lastReading # <<>>
    /\ lastReading[1] = 0
    /\ pc = "exit"
    /\ resetResult = "ok"
    /\ scaledEver # {}
    /\ \A c \in Crtcs : live[c] = Native(c)

\* C11: XRandR backend: every set_brightness call enumerates again, so at
\* the end of a tick made after a topology change every configured output
\* has the handle of the CRTC that drives it now (none when detached).
C11_HandlesFollowTopology ==
    (variant = "xrandr" /\ pc = "sleep") =>
        \A name \in Movable : crtcs[name].id = layout[name]

\* a step in which set_brightness is called: by a tick or by the reset
CallStep ==
    /\ pc \in {"tick", "finally"}
    /\ pc' # pc
    /\ envSerial' = envSerial
    /\ lastFactor' # NoCall

\* C12: Gnome backend: a set_brightness call whose discovery finds the
\* stored serial fetches no ramp and leaves every handle, every
\* original_gamma and the serial as they are; one that finds another
\* serial and is not cut short stores it and leaves exactly the outputs of
\* the new list with a handle, that of their CRTC.
C12_SerialShortCircuit ==
    [][(variant = "gnome" /\ CallStep) =>
          IF serial = envSerial
          THEN crtcs' = crtcs /\ serial' = serial /\ fetches' = fetches
          ELSE lastRaised' # "fault" =>
                  /\ serial' = envSerial
                  /\ \A name \in NameSet :
                        crtcs'[name].id =
                            IF name \in Movable THEN layout[name] ELSE NoId]_vars

\* a discovery with a new serial found "A", captured earlier, absent from the
\* list and "B" present, and a later tick found the serial unchanged
C12_Witness ==
    /\ variant = "gnome"
    /\ pc = "sleep"
    /\ serial = 2
    /\ crtcs["A"].id = NoId
    /\ crtcs["A"].original_gamma # NoGamma
    /\ crtcs["B"].id = 1
    /\ lastReading = <<10, 10>>
    /\ Len(cache) >= 2

\* C13: reset() leaves the id and the original_gamma of every configured
\* output as they were when it was called.
C13_ResetKeepsModel ==
    [][(pc = "finally" /\ pc' # pc) =>
          \A name \in NameSet : crtcs'[name] = crtcs[name]]_vars

\* C14: Gnome backend: every set-gamma call of a set_brightness call
\* carries the serial that the call's resource query returned, which is the
\* stored one, and targets the CRTC that the output list of that serial
\* gives for its output; and the handles stored with the current serial
\* are those of its output list.
C14_CallsCarryCurrentSerial ==
    variant = "gnome" =>
        /\ pc # "tick" =>
               \A k \in 1..Len(lastSets) :
                   /\ lastSets[k].serial = envSerial
                   /\ lastSets[k].serial = serial
                   /\ lastSets[k].crtc = layout[lastSets[k].name]
        /\ serial = envSerial =>
               \A name \in Movable :
                   crtcs[name].id # NoId => crtcs[name].id = layout[name]

\* after a topology change a tick set both outputs, "A" on its new CRTC,
\* with the new serial
C14_Witness ==
    /\ variant = "gnome"
    /\ pc = "sleep"
    /\ envSerial = 2
    /\ Len(lastSets) = 2
    /\ lastSets[1].serial = 2
    /\ lastSets[1].crtc = 2
    /\ crtcs["A"].original_gamma = Native(1)

\* the keys the cache holds
CachedKeys == {cache[k].key : k \in 1..Len(cache)}

\* C15: with no more than Maxsize distinct keys in use, the body of
\* generate_gamma_table runs once for every (output, factor): no key is
\* derived twice, every derived key stays in the cache, and later calls
\* with it are hits.
C15_DerivedOncePerKey ==
    /\ \A i, j \in 1..Len(derived) : i # j => derived[i] # derived[j]
    /\ Len(derived) <= Maxsize
    /\ CachedKeys = {derived[k] : k \in 1..Len(derived)}

\* both outputs were derived for two factors, and a later tick with the first
\* factor again was served from the cache
C15_Witness ==
    /\ pc = "sleep"
    /\ Len(derived) = 4
    /\ lastReading = <<10, 7>>
    /\ derived[4][2] = Quotient(10, 10)
    /\ cache[Len(cache)].key = <<"B", Quotient(7, 10)>>

\* the position of the latest call with key among the first n calls
LastUse(key, n) ==
    IF \E i \in 1..n : requested[i] = key
    THEN CHOOSE i \in 1..n : /\ requested[i] = key
                             /\ \A j \in (i + 1)..n : requested[j] # key
    ELSE 0

\* the keys among the Maxsize most recently used ones after the first n calls
Recent(n) ==
    {key \in {requested[i] : i \in 1..n} :
        Cardinality({requested[i] : i \in (LastUse(key, n) + 1)..n}) < Maxsize}

\* C16: the cache never holds more than Maxsize entries; it holds exactly
\* the Maxsize most recently used keys, the least recently used first (a
\* hit counts as a use), so that an insertion beyond Maxsize evicts
\* exactly the least recently used key; and the body runs only for calls
\* whose key is not among them at the time of the call.
C16_LeastRecentlyUsedEviction ==
    /\ Len(cache) <= Maxsize
    /\ CachedKeys = Recent(Len(requested))
    /\ \A i, j \in 1..Len(cache) :
          i < j => LastUse(cache[i].key, Len(requested))
                       < LastUse(cache[j].key, Len(requested))
    /\ Len(derived) =
           Cardinality({i \in 1..Len(requested) : requested[i] \notin Recent(i - 1)})

\* Maxsize keys were called, then the first of them again, then an 11th key:
\* the second key was evicted, the first is still held, and 11 derivations
\* were made in 12 calls
C16_Witness ==
    /\ Len(requested) = Maxsize + 2
    /\ Cardinality(Requested) = Maxsize + 1
    /\ requested[Maxsize + 1] = CacheKeys[1]
    /\ requested[Maxsize + 2] = CacheKeys[Maxsize + 1]
    /\ Len(cache) = Maxsize
    /\ CacheKeys[1] \in CachedKeys
    /\ CacheKeys[2] \notin CachedKeys
    /\ Len(derived) = Maxsize + 1

\* C17: a configured output that holds a CRTC handle has its
\* original_gamma captured.
C17_HandleImpliesGamma ==
    \A name \in NameSet :
        crtcs[name].id # NoId => crtcs[name].original_gamma # NoGamma

\* C18: every captured original_gamma is the native ramp of a CRTC, never
\* a table that the program wrote.
C18_BaselineIsNative ==
    \A name \in NameSet :
        crtcs[name].original_gamma # NoGamma =>
            \E c \in Crtcs : crtcs[name].original_gamma = Native(c)

\* what the body of generate_gamma_table gives for the key now
FreshTable(key) == Derive(crtcs[key[1]].original_gamma, key[2])

\* C19: every table the cache holds, and so every table a hit returns, and
\* every table the latest set_brightness call sent, equals what the body
\* of generate_gamma_table gives for the same output and factor with the
\* output's current original_gamma.
C19_CacheNeverStale ==
    /\ \A k \in 1..Len(cache) : cache[k].val = FreshTable(cache[k].key)
    /\ \A k \in 1..Len(lastSets) :
          lastSets[k].table = FreshTable(<<lastSets[k].name, lastSets[k].factor>>)

\* the table of "A" was derived while CRTC 1 drove it; after a topology
\* change and a new discovery a tick with the same factor was served from
\* the cache and sent to CRTC 2
C19_Witness ==
    /\ variant = "gnome"
    /\ pc = "sleep"
    /\ serial = 2
    /\ crtcs["A"].original_gamma = Native(1)
    /\ derived = << <<"A", Quotient(7, 10)>> >>
    /\ Len(lastSets) = 1
    /\ lastSets[1].crtc = 2
    /\ lastSets[1].table = cache[1].val
====
